---- MODULE Spec2Model ----
(***************************************************************************)
(* Model of ps3d.py: a stack-based, PostScript-like interpreter that       *)
(* extrudes 2D paths into a 3D mesh (VERTEX pool + FACE list).             *)
(*                                                                         *)
(* Numbers.  Operand-stack values and path coordinates are integers (the   *)
(* literals of the input and their sums).  Mesh coordinates are exact      *)
(* rationals <<n, d>> in lowest terms with d > 0; Python's floats are      *)
(* modelled by exact arithmetic, so two coordinates that are equal as      *)
(* reals are equal in the model.  A heading theta is kept as the pair      *)
(* [c |-> cos(theta), s |-> sin(theta)], so the model covers the headings  *)
(* whose sine and cosine are rational (axis-parallel and 3-4-5 segments).  *)
(*                                                                         *)
(* Errors.  A Python exception aborts the whole conversion; err holds the  *)
(* exception's name ("ok" while running) and the other variables hold the  *)
(* state the interpreter was left in when the exception was raised.        *)
(***************************************************************************)
EXTENDS Integers, Sequences, FiniteSets

VARIABLES
    STACK,      \* operand stack, top of stack last
    GSTACK,     \* graphics state stack: saved copies of DEVICE
    DEVICE,     \* [PageSize, LineWidth, RGBColor, Path]
    VERTEX,     \* vertex pool
    FACE,       \* face list: lists of 1-based pool indices
    COLOR,      \* material registry
    obj,        \* records written to OUTPUT.obj: g, usemtl, v, f
    err,        \* "ok", or the exception that aborted the conversion
    line,       \* the input line processed last (<<>> before the first)
    program,    \* the input file when it is fixed in advance, as lines
    pc          \* number of lines of program processed

vars == <<STACK, GSTACK, DEVICE, VERTEX, FACE, COLOR, obj, err, line,
          program, pc>>

----------------------------------------------------------------------------
(* Exact rational arithmetic *)

Abs(n) == IF n < 0 THEN -n ELSE n

RECURSIVE GCD(_, _)
GCD(a, b) == IF b = 0 THEN a ELSE GCD(b, a % b)

Rat(n, d) ==
    LET g == GCD(Abs(n), Abs(d))
        sgn == IF d < 0 THEN -1 ELSE 1
    IN  <<sgn * (n \div g), sgn * (d \div g)>>

RInt(n) == <<n, 1>>
RZero == RInt(0)
(* a/b + c/d over the least common denominator; g = gcd(b, d) *)
RAddOver(a, b, g) ==
    Rat(a[1] * (b[2] \div g) + b[1] * (a[2] \div g), (a[2] \div g) * b[2])
RAdd(a, b) == RAddOver(a, b, GCD(a[2], b[2]))
RNeg(a) == <<-a[1], a[2]>>
RSub(a, b) == RAdd(a, RNeg(b))
RMul(a, b) == Rat(a[1] * b[1], a[2] * b[2])
RDiv(a, b) == Rat(a[1] * b[2], a[2] * b[1])
RLt(a, b) == a[1] * b[2] < b[1] * a[2]

(* integer square root of a perfect square *)
ISqrt(n) == CHOOSE r \in 0..n : r * r = n
IsSquare(n) == \E r \in 0..n : r * r = n

----------------------------------------------------------------------------
(* Module-level constants of ps3d.py *)

BLACK == <<0, 0, 0>>
WHITE == <<1, 1, 1>>
(* MM = 25.4 / 72 as the fraction MMNum / MMDen *)
MMNum == 254
MMDen == 720

(* Triplet(x, y, z, type); type None is "None" *)
Triplet(x, y, z, t) == [x |-> x, y |-> y, z |-> z, type |-> t]

(* Triplet.__add__ with a Triplet operand: components add, type of other *)
TripletAdd(self, other) ==
    Triplet(RAdd(self.x, other.x), RAdd(self.y, other.y),
            RAdd(self.z, other.z), other.type)

(* Triplet.__eq__: only x, y, z are compared *)
TripletEq(self, other) ==
    <<self.x, self.y, self.z>> = <<other.x, other.y, other.z>>

(* a path point (integer coordinates) as a mesh point *)
ToMesh(p) == Triplet(RInt(p.x), RInt(p.y), RInt(p.z), p.type)

----------------------------------------------------------------------------
(* Python list primitives used on STACK *)

Last(s) == s[Len(s)]
Front(s) == SubSeq(s, 1, Len(s) - 1)
RemoveAt(s, i) == SubSeq(s, 1, i - 1) \o SubSeq(s, i + 1, Len(s))
InsertAt(s, i, v) == SubSeq(s, 1, i - 1) \o <<v>> \o SubSeq(s, i, Len(s))

(* list.pop(i) and list[i] for a Python index i: the 0-based position, or -1
   when it is out of range (IndexError) *)
PyIndexPos(s, i) ==
    LET j == IF i < 0 THEN i + Len(s) ELSE i
    IN  IF j < 0 \/ j >= Len(s) THEN -1 ELSE j

(* list.insert(i, v) for a Python index i: clamped 0-based position *)
PyInsertPos(s, i) ==
    LET j == IF i < 0 THEN i + Len(s) ELSE i
    IN  IF j < 0 THEN 0 ELSE IF j > Len(s) THEN Len(s) ELSE j

----------------------------------------------------------------------------
(* Vertex pool *)

(* list.index(point): 1-based position of the first equal entry, 0 if none *)
VertexIndex(V, point) ==
    IF \E i \in 1..Len(V) : TripletEq(V[i], point)
    THEN CHOOSE i \in 1..Len(V) :
            /\ TripletEq(V[i], point)
            /\ \A j \in 1..(i - 1) : ~TripletEq(V[j], point)
    ELSE 0

(* get_vertex(point): the 0-based index, and the pool after the call *)
get_vertex_noreuse(V, point) ==
    [index |-> Len(V), VERTEX |-> Append(V, point)]
get_vertex(V, point) ==
    LET i == VertexIndex(V, point)
    IN  IF i # 0
        THEN [index |-> i - 1, VERTEX |-> V]
        ELSE [index |-> Len(V), VERTEX |-> Append(V, point)]

(* [get_vertex(p) + 1 for p in points], left to right *)
RECURSIVE get_vertices(_, _)
VerticesRest(r, rest) ==
    [ids |-> <<r.index + 1>> \o rest.ids, VERTEX |-> rest.VERTEX]
VerticesNext(r, points) == VerticesRest(r, get_vertices(r.VERTEX, points))
get_vertices(V, points) ==
    IF points = <<>>
    THEN [ids |-> <<>>, VERTEX |-> V]
    ELSE VerticesNext(get_vertex(V, Head(points)), Tail(points))

----------------------------------------------------------------------------
(* Line formulas and their intersection *)

(* atan2(point0, point1) followed by sin and cos: the heading as [c, s];
   math.atan2(0, 0) is 0 *)
HasHeading(point0, point1) ==
    IsSquare((point1.x - point0.x) * (point1.x - point0.x)
             + (point1.y - point0.y) * (point1.y - point0.y))
atan2(point0, point1) ==
    LET dx == point1.x - point0.x
        dy == point1.y - point0.y
        h == ISqrt(dx * dx + dy * dy)
    IN  IF h = 0 THEN [c |-> RInt(1), s |-> RInt(0)]
        ELSE [c |-> Rat(dx, h), s |-> Rat(dy, h)]
sin(theta) == theta.s
cos(theta) == theta.c

(* line_formula(start, end): {'m', 'c', 'z'} or the vertical form {'x', 'z'} *)
line_formula(start, end) ==
    LET delta_y == RSub(end.y, start.y)
        delta_x == RSub(end.x, start.x)
    IN  IF delta_x = RZero
        THEN [kind |-> "x", x |-> start.x, m |-> RZero, c |-> RZero,
              z |-> start.z]
        ELSE LET m == RDiv(delta_y, delta_x)
             IN  [kind |-> "m", x |-> RZero, m |-> m,
                  c |-> RSub(start.y, RMul(m, start.x)), z |-> start.z]

(* intersection(line0, line1): the point, or the exception raised *)
NoPoint(e) == [err |-> e, point |-> Triplet(RZero, RZero, RZero, "None")]
intersection(line0, line1) ==
    IF line0.kind = "m" /\ line1.kind = "m"
    THEN IF line0.m = line1.m
         THEN NoPoint("ZeroDivisionError")
         ELSE LET x_value == RDiv(RSub(line1.c, line0.c),
                                  RSub(line0.m, line1.m))
                  y_value == RAdd(RMul(line0.m, x_value), line0.c)
              IN  [err |-> "ok",
                   point |-> Triplet(x_value, y_value, line0.z, "None")]
    ELSE IF line0.kind = "x"
    THEN (* swapped: line1 takes the role of line0 *)
         IF line1.kind # "m"
         THEN NoPoint("KeyError")
         ELSE LET x_value == line0.x
                  y_value == RAdd(RMul(line1.m, x_value), line1.c)
              IN  [err |-> "ok",
                   point |-> Triplet(x_value, y_value, line1.z, "None")]
    ELSE (* line0 has 'm', line1 is vertical: x_value was never assigned *)
         NoPoint("UnboundLocalError")

----------------------------------------------------------------------------
(* Segments: boxes of six faces, each a list of four 1-based pool indices.
   Python's face[k] is face[k + 1] here. *)

(* sin(theta) * adjustment and cos(theta) * adjustment *)
Offsets(theta, adjustment) ==
    [sin_offset |-> RMul(sin(theta), adjustment),
     cos_offset |-> RMul(cos(theta), adjustment)]

PortOffset(o, z) == Triplet(RNeg(o.sin_offset), o.cos_offset, z, "None")
StarboardOffset(o, z) == Triplet(o.sin_offset, RNeg(o.cos_offset), z, "None")

(* the eight corners in the order get_faces registers them: deck, then hull *)
Corners(start, end, o, linewidth) ==
    << TripletAdd(end, PortOffset(o, linewidth)),
       TripletAdd(start, PortOffset(o, linewidth)),
       TripletAdd(start, StarboardOffset(o, linewidth)),
       TripletAdd(end, StarboardOffset(o, linewidth)),
       TripletAdd(end, PortOffset(o, RZero)),
       TripletAdd(start, PortOffset(o, RZero)),
       TripletAdd(start, StarboardOffset(o, RZero)),
       TripletAdd(end, StarboardOffset(o, RZero)) >>

(* the faces dict for vertices = v (0-based there, already + 1 here) *)
FacesOf(v) ==
    [top    |-> <<v[1], v[2], v[3], v[4]>>,
     bottom |-> <<v[8], v[7], v[6], v[5]>>,
     left   |-> <<v[5], v[6], v[2], v[1]>>,
     right  |-> <<v[4], v[3], v[7], v[8]>>,
     start  |-> <<v[2], v[6], v[7], v[3]>>,
     end    |-> <<v[5], v[1], v[4], v[8]>>]

SegmentOf(r) == [faces |-> FacesOf(r.ids), VERTEX |-> r.VERTEX]

(* stroke.get_faces(start, end): the faces and the pool after registering
   the eight corners *)
get_faces(start, end, linewidth, V) ==
    SegmentOf(get_vertices(V,
        Corners(ToMesh(start), ToMesh(end),
                Offsets(atan2(start, end), Rat(linewidth, 2)),
                RInt(linewidth))))

(* the rail through two corners of a top face, listed stern to bow *)
Rail(V, top, stern, bow) == line_formula(V[top[stern]], V[top[bow]])

(* intersection of the leading and the trailing segment's port rails *)
PortPoint(trail, lead, V) ==
    intersection(Rail(V, lead.top, 2, 1), Rail(V, trail.top, 2, 1))

StarboardPoint(trail, lead, V) ==
    intersection(Rail(V, lead.top, 3, 4), Rail(V, trail.top, 3, 4))

(* the four chained assignments of join; j = [trail, lead, VERTEX, err] and
   r is what get_vertex returned *)
SetPortDeck(j, r) ==
    [j EXCEPT !.VERTEX = r.VERTEX,
              !.trail.top[1] = r.index + 1, !.lead.top[2] = r.index + 1,
              !.trail.left[4] = r.index + 1, !.lead.left[3] = r.index + 1,
              !.trail.end[1] = r.index + 1, !.lead.start[2] = r.index + 1]

SetPortHull(j, r) ==
    [j EXCEPT !.VERTEX = r.VERTEX,
              !.trail.bottom[4] = r.index + 1, !.lead.bottom[3] = r.index + 1,
              !.trail.left[1] = r.index + 1, !.lead.left[2] = r.index + 1,
              !.trail.end[2] = r.index + 1, !.lead.start[1] = r.index + 1]

SetStarboardDeck(j, r) ==
    [j EXCEPT !.VERTEX = r.VERTEX,
              !.trail.top[4] = r.index + 1, !.lead.top[3] = r.index + 1,
              !.trail.right[1] = r.index + 1, !.lead.right[2] = r.index + 1,
              !.trail.end[4] = r.index + 1, !.lead.start[3] = r.index + 1]

SetStarboardHull_past_end(j, r) ==
    [j EXCEPT !.VERTEX = r.VERTEX,
              !.trail.bottom[1] = r.index + 2, !.lead.bottom[2] = r.index + 2,
              !.trail.right[4] = r.index + 2, !.lead.right[3] = r.index + 2,
              !.trail.end[3] = r.index + 2, !.lead.start[4] = r.index + 2]
SetStarboardHull(j, r) ==
    [j EXCEPT !.VERTEX = r.VERTEX,
              !.trail.bottom[1] = r.index + 1, !.lead.bottom[2] = r.index + 1,
              !.trail.right[4] = r.index + 1, !.lead.right[3] = r.index + 1,
              !.trail.end[3] = r.index + 1, !.lead.start[4] = r.index + 1]

Hull(point) == [point EXCEPT !.z = RZero]

JoinPortHull(j, point) == SetPortHull(j, get_vertex(j.VERTEX, Hull(point)))
JoinPort_hull_only(j, point) == JoinPortHull(j, point)
JoinPort(j, point) ==
    JoinPortHull(SetPortDeck(j, get_vertex(j.VERTEX, point)), point)

JoinStarboardHull(j, point) ==
    SetStarboardHull(j, get_vertex(j.VERTEX, Hull(point)))
JoinStarboard(j, starboard) ==
    IF starboard.err # "ok" THEN [j EXCEPT !.err = starboard.err]
    ELSE JoinStarboardHull(
            SetStarboardDeck(j, get_vertex(j.VERTEX, starboard.point)),
            starboard.point)

JoinPoints(j, port, starboard) ==
    IF port.err # "ok" THEN [j EXCEPT !.err = port.err]
    ELSE JoinStarboard(JoinPort(j, port.point), starboard)

(* the body of join for the trailing segment (segments[index - 1]) and the
   leading one (segments[index]): all four rails are read first, then the
   port corner and the starboard corner are replaced in turn *)
JoinPair(trail, lead, V) ==
    JoinPoints([trail |-> trail, lead |-> lead, VERTEX |-> V, err |-> "ok"],
               PortPoint(trail, lead, V), StarboardPoint(trail, lead, V))

Joined(index, segments, r) ==
    [segments |-> [segments EXCEPT ![index] = r.trail, ![index + 1] = r.lead],
     VERTEX |-> r.VERTEX, err |-> r.err]

(* join(index, segments) for a Python index >= 1: segments[index] is
   segments[index + 1] here *)
join(index, segments, V) ==
    Joined(index, segments,
           JoinPair(segments[index], segments[index + 1], V))

(* for index in range(len(path) - 1): segments.append(get_faces(...)) *)
RECURSIVE BuildSegments(_, _, _, _)
BuildRest(r, rest) ==
    [segments |-> <<r.faces>> \o rest.segments, VERTEX |-> rest.VERTEX]
BuildNext(path, index, linewidth, r) ==
    BuildRest(r, BuildSegments(path, index + 1, linewidth, r.VERTEX))
BuildSegments(path, index, linewidth, V) ==
    IF index >= Len(path)
    THEN [segments |-> <<>>, VERTEX |-> V]
    ELSE BuildNext(path, index, linewidth,
                   get_faces(path[index], path[index + 1], linewidth, V))

(* for index in range(1, len(segments)): join(index, segments) *)
RECURSIVE JoinSegments(_, _, _)
JoinNext(index, r) ==
    IF r.err # "ok" THEN r
    ELSE JoinSegments(index + 1, r.segments, r.VERTEX)
JoinSegments(index, segments, V) ==
    IF index >= Len(segments)
    THEN [segments |-> segments, VERTEX |-> V, err |-> "ok"]
    ELSE JoinNext(index, join(index, segments, V))

(* segment[k] for k in ('top', 'left', 'bottom', 'right'), every segment *)
FourFaces(g) == <<g.top, g.left, g.bottom, g.right>>
RECURSIVE SegmentFaces(_)
SegmentFaces(segments) ==
    IF segments = <<>> THEN <<>>
    ELSE FourFaces(Head(segments)) \o SegmentFaces(Tail(segments))

----------------------------------------------------------------------------
(* The interpreter state as one record m, and the words of the language as
   functions from the state before to the state after.  A word that raises
   returns the state it left behind with err set. *)

Machine(st, gst, dev, vtx, fc, col, out, e) ==
    [STACK |-> st, GSTACK |-> gst, DEVICE |-> dev, VERTEX |-> vtx,
     FACE |-> fc, COLOR |-> col, obj |-> out, err |-> e]

Raise(m, e) == [m EXCEPT !.err = e]

(* tokens of an input line: a numeric literal or a word of PS3D *)
N(v) == [word |-> "literal", v |-> v]
W(name) == [word |-> name, v |-> 0]

add(m) ==
    LET s == m.STACK
    IN  IF Len(s) = 0 THEN Raise(m, "IndexError")
        ELSE IF Len(s) = 1
        THEN [m EXCEPT !.STACK = <<>>, !.err = "IndexError"]
        ELSE [m EXCEPT !.STACK =
                Append(SubSeq(s, 1, Len(s) - 2), s[Len(s)] + s[Len(s) - 1])]

currentpoint(m) ==
    LET path == m.DEVICE.Path
    IN  IF path = <<>> THEN Raise(m, "ValueError")
        ELSE [m EXCEPT !.STACK = @ \o <<Last(path).x, Last(path).y>>]

(* while count: STACK.append(STACK.pop(-number)); count += 1 *)
RECURSIVE RollDown(_, _, _)
RollDown(s, count, number) ==
    IF count = 0 THEN [STACK |-> s, err |-> "ok"]
    ELSE LET p == PyIndexPos(s, -number)
         IN  IF p = -1 THEN [STACK |-> s, err |-> "IndexError"]
             ELSE RollDown(Append(RemoveAt(s, p + 1), s[p + 1]),
                           count + 1, number)

(* while count: STACK.insert(-number, STACK.pop()); count -= 1 *)
RECURSIVE RollUp(_, _, _)
RollUp(s, count, number) ==
    IF count = 0 THEN [STACK |-> s, err |-> "ok"]
    ELSE IF s = <<>> THEN [STACK |-> s, err |-> "IndexError"]
    ELSE LET rest == Front(s)
             p == PyInsertPos(rest, -number)
         IN  RollUp(InsertAt(rest, p + 1, Last(s)), count - 1, number)

roll(m) ==
    LET s == m.STACK
    IN  IF Len(s) = 0 THEN Raise(m, "IndexError")
        ELSE IF Len(s) = 1
        THEN [m EXCEPT !.STACK = <<>>, !.err = "IndexError"]
        ELSE LET count == s[Len(s)]
                 number == s[Len(s) - 1]
                 rest == SubSeq(s, 1, Len(s) - 2)
                 r == IF count < 0 THEN RollDown(rest, count, number)
                      ELSE RollUp(rest, count, number)
             IN  [m EXCEPT !.STACK = r.STACK, !.err = r.err]

index(m) ==
    LET s == m.STACK
    IN  IF Len(s) = 0 THEN Raise(m, "IndexError")
        ELSE LET rest == Front(s)
                 p == PyIndexPos(rest, -Last(s) - 1)
             IN  IF p = -1
                 THEN [m EXCEPT !.STACK = rest, !.err = "IndexError"]
                 ELSE [m EXCEPT !.STACK = Append(rest, rest[p + 1])]

dup(m) ==
    IF m.STACK = <<>> THEN Raise(m, "IndexError")
    ELSE [m EXCEPT !.STACK = Append(@, Last(@))]

exch(m) ==
    LET s == m.STACK
    IN  IF Len(s) < 2 THEN Raise(m, "IndexError")
        ELSE [m EXCEPT !.STACK =
                SubSeq(s, 1, Len(s) - 2) \o <<s[Len(s)], s[Len(s) - 1]>>]

(* a path point: integer coordinates and the edge-type tag *)
PathPoint(x, y, t) == [x |-> x, y |-> y, z |-> 0, type |-> t]

moveto_nopoint(m, pathtype) ==
    LET s == m.STACK
    IN  IF Len(s) < 2
        THEN [m EXCEPT !.DEVICE.Path = <<>>, !.err = "IndexError"]
        ELSE [m EXCEPT !.STACK = SubSeq(s, 1, Len(s) - 2),
                       !.DEVICE.Path = <<>>]
moveto(m, pathtype) ==
    LET s == m.STACK
    IN  IF Len(s) < 2
        THEN [m EXCEPT !.DEVICE.Path = <<>>, !.err = "IndexError"]
        ELSE [m EXCEPT !.STACK = SubSeq(s, 1, Len(s) - 2),
                       !.DEVICE.Path =
                           <<PathPoint(s[Len(s) - 1], s[Len(s)], pathtype)>>]

(* pops the new point, then pops and discards the point `here` *)
lineto(m, pathtype) ==
    LET s == m.STACK
    IN  IF Len(s) < 2 THEN Raise(m, "IndexError")
        ELSE IF Len(s) < 4
        THEN [m EXCEPT !.STACK = SubSeq(s, 1, Len(s) - 2),
                       !.err = "IndexError"]
        ELSE [m EXCEPT !.STACK = SubSeq(s, 1, Len(s) - 4),
                       !.DEVICE.Path =
                           Append(@, PathPoint(s[Len(s) - 1], s[Len(s)],
                                               pathtype))]

closepath(m) ==
    LET path == m.DEVICE.Path
        m1 == currentpoint(m)
    IN  IF m1.err # "ok" THEN m1
        ELSE lineto([m1 EXCEPT !.STACK = @ \o <<path[1].x, path[1].y>>],
                    "closepath")

setlinewidth(m) ==
    IF m.STACK = <<>> THEN Raise(m, "IndexError")
    ELSE [m EXCEPT !.STACK = Front(@), !.DEVICE.LineWidth = Last(m.STACK)]

(* position of color in COLOR, 0-based; Len(COLOR) if absent *)
ColorIndex_absent(C, color) == Len(C)
ColorIndex(C, color) ==
    IF \E i \in 1..Len(C) : C[i] = color
    THEN (CHOOSE i \in 1..Len(C) :
            C[i] = color /\ \A j \in 1..(i - 1) : C[j] # color) - 1
    ELSE Len(C)

setrgbcolor(m, useblack) ==
    LET s == m.STACK
    IN  IF Len(s) < 3 THEN Raise(m, "IndexError")
        ELSE LET popped == <<s[Len(s) - 2], s[Len(s) - 1], s[Len(s)]>>
                 color == IF popped = BLACK /\ ~useblack THEN WHITE
                          ELSE popped
                 m1 == [m EXCEPT !.STACK = SubSeq(s, 1, Len(s) - 3)]
                 group == ColorIndex(m.COLOR, color)
             IN  IF color # m.DEVICE.RGBColor
                 THEN [m1 EXCEPT
                        !.DEVICE.RGBColor = color,
                        !.COLOR = IF group = Len(m.COLOR)
                                  THEN Append(@, color) ELSE @,
                        !.obj = @ \o << <<"g", group>>,
                                        <<"usemtl", group>> >>]
                 ELSE m1

setgray(m) ==
    IF m.STACK = <<>> THEN Raise(m, "IndexError")
    ELSE setrgbcolor([m EXCEPT !.STACK =
                        Front(@) \o <<Last(@), Last(@), Last(@)>>], FALSE)

gsave(m) == [m EXCEPT !.GSTACK = Append(@, m.DEVICE)]

grestore_fifo(m) ==
    IF m.GSTACK = <<>> THEN Raise(m, "IndexError")
    ELSE [m EXCEPT !.GSTACK = Tail(@), !.DEVICE = Head(m.GSTACK)]
grestore(m) ==
    IF m.GSTACK = <<>> THEN Raise(m, "IndexError")
    ELSE [m EXCEPT !.GSTACK = Front(@), !.DEVICE = Last(m.GSTACK)]

----------------------------------------------------------------------------
(* stroke, fill, showpage *)

(* linewidth * MM < 1 *)
TooThin_never(linewidth) == FALSE
TooThin(linewidth) == linewidth * MMNum < MMDen

(* the closing join of a closed path: the face lists already appended to
   FACE are the segments' own lists, so what join changes shows in FACE *)
StrokeClosed(m, segments, closing) ==
    [m EXCEPT !.VERTEX = closing.VERTEX,
              !.FACE = @ \o SegmentFaces(
                    [segments EXCEPT ![Len(segments)] = closing.trail,
                                     ![1] = closing.lead]),
              !.DEVICE.Path = IF closing.err = "ok" THEN <<>> ELSE @,
              !.err = closing.err]

(* the open path: the first segment's start cap goes before the new faces,
   the last segment's end cap after them *)
StrokeOpen_nocaps(m, segments) ==
    [m EXCEPT !.FACE = @ \o SegmentFaces(segments),
              !.DEVICE.Path = <<>>]
StrokeOpen(m, segments) ==
    [m EXCEPT !.FACE = (@ \o <<segments[1].start>>)
                       \o SegmentFaces(segments)
                       \o <<segments[Len(segments)].end>>,
              !.DEVICE.Path = <<>>]

StrokeFaces(m, segments) ==
    IF m.DEVICE.Path = <<>> \/ segments = <<>>
    THEN (* path[-1] or segments[0] of an empty list *)
         Raise(m, "IndexError")
    ELSE IF Last(m.DEVICE.Path).type # "closepath"
    THEN StrokeOpen(m, segments)
    ELSE StrokeClosed(m, segments,
                      JoinPair(segments[Len(segments)], segments[1],
                               m.VERTEX))

StrokeJoined(m, joined) ==
    IF joined.err # "ok"
    THEN [m EXCEPT !.VERTEX = joined.VERTEX, !.err = joined.err]
    ELSE StrokeFaces([m EXCEPT !.VERTEX = joined.VERTEX], joined.segments)

StrokeBuilt(m, built) ==
    StrokeJoined(m, JoinSegments(1, built.segments, built.VERTEX))

stroke(m) ==
    IF TooThin(m.DEVICE.LineWidth) THEN Raise(m, "ValueError")
    ELSE StrokeBuilt(m, BuildSegments(m.DEVICE.Path, 1, m.DEVICE.LineWidth,
                                      m.VERTEX))

(* one quad per index in range(len(path) - 1); Python's top[index - 1] and
   path[index - 1] wrap to the last element at index 0 *)
RECURSIVE FillSides(_, _, _, _)
FillRest(r, rest) ==
    [faces |-> <<r.ids>> \o rest.faces, VERTEX |-> rest.VERTEX]
FillNext(idx, path, top, r) ==
    FillRest(r, FillSides(idx + 1, path, top, r.VERTEX))
FillSides(idx, path, top, V) ==
    IF idx > Len(path) - 2
    THEN [faces |-> <<>>, VERTEX |-> V]
    ELSE FillNext(idx, path, top,
            get_vertices(V,
                <<top[idx + 1],
                  IF idx = 0 THEN top[Len(top)] ELSE top[idx],
                  ToMesh(IF idx = 0 THEN path[Len(path)] ELSE path[idx]),
                  ToMesh(path[idx + 1])>>))

Reversed(s) == [i \in 1..Len(s) |-> s[Len(s) + 1 - i]]

(* [p._replace(z=linewidth) for p in path[:-1]] *)
TopPoints(path, linewidth) ==
    [i \in 1..(Len(path) - 1) |->
        [ToMesh(path[i]) EXCEPT !.z = RInt(linewidth)]]

(* reversed(path[:-1]) *)
BottomPoints(path) ==
    Reversed([i \in 1..(Len(path) - 1) |-> ToMesh(path[i])])

FillDone(m, topIds, sideFaces, bottom) ==
    [m EXCEPT !.VERTEX = bottom.VERTEX,
              !.FACE = (@ \o <<topIds>>) \o sideFaces \o <<bottom.ids>>,
              !.DEVICE.Path = <<>>]

FillBottom(m, topIds, sides) ==
    FillDone(m, topIds, sides.faces,
             get_vertices(sides.VERTEX, BottomPoints(m.DEVICE.Path)))

FillTop(m, top, topFace) ==
    FillBottom(m, topFace.ids,
               FillSides(0, m.DEVICE.Path, top, topFace.VERTEX))

FillPath(m, top) == FillTop(m, top, get_vertices(m.VERTEX, top))

fill_unchecked(m) ==
    IF TooThin(m.DEVICE.LineWidth) THEN Raise(m, "ValueError")
    ELSE IF m.DEVICE.Path = <<>> THEN Raise(m, "IndexError")
    ELSE FillPath(m, TopPoints(m.DEVICE.Path, m.DEVICE.LineWidth))
fill(m) ==
    IF TooThin(m.DEVICE.LineWidth) THEN Raise(m, "ValueError")
    ELSE IF m.DEVICE.Path = <<>> THEN Raise(m, "IndexError")
    ELSE IF Last(m.DEVICE.Path).type # "closepath"
    THEN Raise(m, "ValueError")
    ELSE FillPath(m, TopPoints(m.DEVICE.Path, m.DEVICE.LineWidth))

showpage(m) ==
    [m EXCEPT !.obj = @ \o [i \in 1..Len(m.VERTEX) |-> <<"v", i>>]
                        \o [i \in 1..Len(m.FACE) |-> <<"f", m.FACE[i]>>]]

----------------------------------------------------------------------------
(* process(line): the tokens of a line, left to right, until one raises *)

RECURSIVE process(_, _)

(* 'currentpoint 2 1 roll add exch 2 1 roll add exch' *)
rmoveto(m) ==
    LET m1 == process(<<W("currentpoint"), N(2), N(1), W("roll"), W("add"),
                        W("exch"), N(2), N(1), W("roll"), W("add"),
                        W("exch")>>, m)
    IN  IF m1.err # "ok" THEN m1 ELSE moveto(m1, "moveto")

(* 'currentpoint 4 2 roll 2 index add exch 3 index add exch' *)
rlineto(m) ==
    LET m1 == process(<<W("currentpoint"), N(4), N(2), W("roll"), N(2),
                        W("index"), W("add"), W("exch"), N(3), W("index"),
                        W("add"), W("exch")>>, m)
    IN  IF m1.err # "ok" THEN m1 ELSE lineto(m1, "lineto")

(* PS3D[token]() for a word, STACK.append(literal_eval(token)) otherwise *)
Exec(token, m) ==
    CASE token.word = "literal" -> [m EXCEPT !.STACK = Append(@, token.v)]
      [] token.word = "add" -> add(m)
      [] token.word = "currentpoint" -> currentpoint(m)
      [] token.word = "roll" -> roll(m)
      [] token.word = "index" -> index(m)
      [] token.word = "dup" -> dup(m)
      [] token.word = "exch" -> exch(m)
      [] token.word = "moveto" -> moveto(m, "moveto")
      [] token.word = "rmoveto" -> rmoveto(m)
      [] token.word = "lineto" -> lineto(m, "lineto")
      [] token.word = "rlineto" -> rlineto(m)
      [] token.word = "closepath" -> closepath(m)
      [] token.word = "setlinewidth" -> setlinewidth(m)
      [] token.word = "setrgbcolor" -> setrgbcolor(m, TRUE)
      [] token.word = "setgray" -> setgray(m)
      [] token.word = "gsave" -> gsave(m)
      [] token.word = "grestore" -> grestore(m)
      [] token.word = "stroke" -> stroke(m)
      [] token.word = "fill" -> fill(m)
      [] token.word = "showpage" -> showpage(m)

process(tokens, m) ==
    IF tokens = <<>> \/ m.err # "ok" THEN m
    ELSE process(Tail(tokens), Exec(Head(tokens), m))

----------------------------------------------------------------------------
(* State after the prologue of convert(): module-level initial values and
   the default material group written to the .obj file *)

(* the paths whose stroke the model covers: every segment has a rational
   heading *)
Strokeable(path) ==
    \A i \in 1..(Len(path) - 1) : HasHeading(path[i], path[i + 1])

DEVICE0 ==
    [PageSize |-> <<0, 0>>, LineWidth |-> 1, RGBColor |-> WHITE,
     Path |-> <<>>]

OBJ0 == << <<"g", 0>>, <<"usemtl", 0>> >>

Constructed ==
    /\ STACK = <<>>
    /\ GSTACK = <<>>
    /\ DEVICE = DEVICE0
    /\ VERTEX = <<>>
    /\ FACE = <<>>
    /\ COLOR = <<WHITE>>
    /\ obj = OBJ0
    /\ err = "ok"
    /\ line = <<>>

Init == Constructed /\ program = <<>> /\ pc = 0

Cur == Machine(STACK, GSTACK, DEVICE, VERTEX, FACE, COLOR, obj, err)

(* for line in infile: process(line); nothing runs after an exception *)
RunLine(tokens) ==
    /\ err = "ok"
    /\ LET m == process(tokens, Cur)
       IN  /\ STACK' = m.STACK
           /\ GSTACK' = m.GSTACK
           /\ DEVICE' = m.DEVICE
           /\ VERTEX' = m.VERTEX
           /\ FACE' = m.FACE
           /\ COLOR' = m.COLOR
           /\ obj' = m.obj
           /\ err' = m.err
    /\ line' = tokens

(* the words with their literal operands on the same line *)
PushLine(v) == <<N(v)>>
AddLine == <<W("add")>>
DupLine == <<W("dup")>>
ExchLine == <<W("exch")>>
IndexLine(n) == <<N(n), W("index")>>
RollLine(n, j) == <<N(n), N(j), W("roll")>>
CurrentpointLine == <<W("currentpoint")>>
MovetoLine(x, y) == <<N(x), N(y), W("moveto")>>
RmovetoLine(dx, dy) == <<N(dx), N(dy), W("rmoveto")>>
LinetoLine(x, y) == <<N(x), N(y), W("lineto")>>
RlinetoLine(dx, dy) == <<N(dx), N(dy), W("rlineto")>>
ClosepathLine == <<W("closepath")>>
SetlinewidthLine(w) == <<N(w), W("setlinewidth")>>
SetrgbcolorLine(c) == <<N(c[1]), N(c[2]), N(c[3]), W("setrgbcolor")>>
SetgrayLine(g) == <<N(g), W("setgray")>>
GsaveLine == <<W("gsave")>>
GrestoreLine == <<W("grestore")>>
StrokeLine == <<W("stroke")>>
FillLine == <<W("fill")>>
ShowpageLine == <<W("showpage")>>

----------------------------------------------------------------------------
(* SpecExample: the input file is fixed in advance: a start point, one
   relative line, a line width, stroke *)

Starts == {<<10, 10>>, <<0, 0>>}
Moves == {<<5, 0>>, <<6, 0>>, <<0, 5>>, <<-3, 4>>, <<-3, -4>>}
Widths == {1, 3, 4}

ExampleProgram(s, d, w) ==
    <<MovetoLine(s[1], s[2]), RlinetoLine(d[1], d[2]), SetlinewidthLine(w),
      StrokeLine>>

Examples == {ExampleProgram(s, d, w) : s \in Starts, d \in Moves, w \in Widths}

InitExample == Constructed /\ program \in Examples /\ pc = 0

NextLine ==
    /\ pc < Len(program)
    /\ program[pc + 1] = StrokeLine => Strokeable(DEVICE.Path)
    /\ RunLine(program[pc + 1])
    /\ pc' = pc + 1
    /\ UNCHANGED program

SpecExample == InitExample /\ [][NextLine]_vars

Example1 == ExampleProgram(<<10, 10>>, <<5, 0>>, 1)
Example1Printable == ExampleProgram(<<10, 10>>, <<5, 0>>, 3)
Example1Path == <<PathPoint(10, 10, "moveto"), PathPoint(15, 10, "lineto")>>

(* C1 as stated: Example 1 builds the two-point path and its stroke completes
   with 6 faces and 8 pool vertices *)
C1_AsStated ==
    program = Example1 =>
        /\ pc = 3 => DEVICE.Path = Example1Path
        /\ pc = 4 => err = "ok" /\ Len(FACE) = 6 /\ Len(VERTEX) = 8

(* C1 amended: Example 1 builds the path [(10,10,0,moveto), (15,10,0,lineto)],
   but its stroke aborts because line width 1 is below the printable minimum,
   leaving the Face list and the Vertex Pool empty; with `3 setlinewidth`
   the same program completes with one segment: the 6 faces start, top, left,
   bottom, right, end in the Face list and a Vertex Pool of size 8 *)
C1_Example1 ==
    /\ (program \in {Example1, Example1Printable} /\ pc \in {2, 3}) =>
            err = "ok" /\ DEVICE.Path = Example1Path /\ STACK = <<>>
    /\ (program = Example1 /\ pc = 4) =>
            /\ err = "ValueError"
            /\ FACE = <<>> /\ VERTEX = <<>>
            /\ DEVICE.Path = Example1Path
    /\ (program = Example1Printable /\ pc = 4) =>
            /\ err = "ok"
            /\ FACE = << <<2, 6, 7, 3>>, <<1, 2, 3, 4>>, <<5, 6, 2, 1>>,
                         <<8, 7, 6, 5>>, <<4, 3, 7, 8>>, <<5, 1, 4, 8>> >>
            /\ Len(VERTEX) = 8

C1_Witness ==
    program = Example1Printable /\ pc = 4 /\ err = "ok" /\ Len(FACE) = 6

----------------------------------------------------------------------------
(* SpecStack: one line holding a stack or path word is processed in a state
   where earlier lines left operands on the stack and a current path *)

MaxStack == 4
StackVals == {7, 8, 9}
Operands == {<<20, 30>>, <<-4, 0>>}
RollN == 0..3
RollJ == -2..2
IndexN == 0..2

StacksUpTo(n) == UNION {[1..k -> StackVals] : k \in 0..n}

StackPaths ==
    { <<>>,
      <<PathPoint(1, 2, "moveto")>>,
      <<PathPoint(1, 2, "moveto"), PathPoint(3, 5, "lineto")>> }

InitStack ==
    /\ STACK \in StacksUpTo(MaxStack)
    /\ GSTACK = <<>>
    /\ DEVICE \in {[DEVICE0 EXCEPT !.Path = p] : p \in StackPaths}
    /\ VERTEX = <<>>
    /\ FACE = <<>>
    /\ COLOR = <<WHITE>>
    /\ obj = OBJ0
    /\ err = "ok"
    /\ line = <<>>
    /\ program = <<>>
    /\ pc = 0

StackPush ==
    \E v \in StackVals :
        /\ line = <<>>
        /\ RunLine(PushLine(v))
        /\ UNCHANGED <<program, pc>>

StackAdd ==
    /\ line = <<>>
    /\ RunLine(AddLine)
    /\ UNCHANGED <<program, pc>>

StackDup ==
    /\ line = <<>>
    /\ RunLine(DupLine)
    /\ UNCHANGED <<program, pc>>

StackExch ==
    /\ line = <<>>
    /\ RunLine(ExchLine)
    /\ UNCHANGED <<program, pc>>

StackIndex ==
    \E n \in IndexN :
        /\ line = <<>>
        /\ RunLine(IndexLine(n))
        /\ UNCHANGED <<program, pc>>

StackRoll ==
    \E n \in RollN, j \in RollJ :
        /\ line = <<>>
        /\ RunLine(RollLine(n, j))
        /\ UNCHANGED <<program, pc>>

StackCurrentpoint ==
    /\ line = <<>>
    /\ RunLine(CurrentpointLine)
    /\ UNCHANGED <<program, pc>>

StackMoveto ==
    \E o \in Operands :
        /\ line = <<>>
        /\ RunLine(MovetoLine(o[1], o[2]))
        /\ UNCHANGED <<program, pc>>

StackRmoveto ==
    \E o \in Operands :
        /\ line = <<>>
        /\ RunLine(RmovetoLine(o[1], o[2]))
        /\ UNCHANGED <<program, pc>>

StackLineto ==
    \E o \in Operands :
        /\ line = <<>>
        /\ RunLine(LinetoLine(o[1], o[2]))
        /\ UNCHANGED <<program, pc>>

StackRlineto ==
    \E o \in Operands :
        /\ line = <<>>
        /\ RunLine(RlinetoLine(o[1], o[2]))
        /\ UNCHANGED <<program, pc>>

StackClosepath ==
    /\ line = <<>>
    /\ RunLine(ClosepathLine)
    /\ UNCHANGED <<program, pc>>

NextStack ==
    \/ StackPush
    \/ StackAdd
    \/ StackDup
    \/ StackExch
    \/ StackIndex
    \/ StackRoll
    \/ StackCurrentpoint
    \/ StackMoveto
    \/ StackRmoveto
    \/ StackLineto
    \/ StackRlineto
    \/ StackClosepath

SpecStack == InitStack /\ [][NextStack]_vars

(* the word of a line and its two literal operands *)
WordOf(l) == l[Len(l)].word
Operand1(l) == l[1].v
Operand2(l) == l[2].v

(* C3: `x y lineto` with a non-empty path pops exactly x and y, appends
   (x, y, 0) tagged lineto and leaves the rest of the stack unchanged *)
C3_AsStated ==
    [][(DEVICE.Path # <<>> /\ line' # <<>> /\ WordOf(line') = "lineto") =>
        /\ err' = "ok"
        /\ STACK' = STACK
        /\ DEVICE'.Path =
             Append(DEVICE.Path,
                    PathPoint(Operand1(line'), Operand2(line'), "lineto"))
      ]_vars

(* C4: `dx dy rmoveto` with current point (x, y) resets the path to the
   single point (x + dx, y + dy, 0) tagged moveto and consumes exactly dx dy *)
C4_AsStated ==
    [][(DEVICE.Path # <<>> /\ line' # <<>> /\ WordOf(line') = "rmoveto") =>
        /\ err' = "ok"
        /\ STACK' = STACK
        /\ DEVICE'.Path =
             <<PathPoint(Last(DEVICE.Path).x + Operand1(line'),
                         Last(DEVICE.Path).y + Operand2(line'), "moveto")>>
      ]_vars

(* the top n elements of s rotated by j positions toward the top *)
Rotated(s, n, j) ==
    LET base == Len(s) - n
    IN  [i \in 1..Len(s) |->
            IF i <= base THEN s[i]
            ELSE s[base + 1 + ((i - base - 1 - j) % n)]]

(* C5: `n j roll` on a stack of depth >= n rotates the top n elements by j
   and keeps every element below them in place *)
C5_AsStated ==
    [][(line' # <<>> /\ WordOf(line') = "roll"
        /\ Operand1(line') >= 1 /\ Len(STACK) >= Operand1(line')) =>
        /\ err' = "ok"
        /\ STACK' = Rotated(STACK, Operand1(line'), Operand2(line'))
      ]_vars

(* C9: `dx dy rlineto` with current point (x, y) appends (x + dx, y + dy, 0)
   tagged lineto, consumes exactly dx dy and leaves every stack element
   beneath them unchanged *)
C9_AsStated ==
    [][(DEVICE.Path # <<>> /\ line' # <<>> /\ WordOf(line') = "rlineto") =>
        /\ err' = "ok"
        /\ STACK' = STACK
        /\ DEVICE'.Path =
             Append(DEVICE.Path,
                    PathPoint(Last(DEVICE.Path).x + Operand1(line'),
                              Last(DEVICE.Path).y + Operand2(line'),
                              "lineto"))
      ]_vars

(* C10: lineto, rlineto and currentpoint on an empty path abort and append
   no point, so a non-empty path always starts with a moveto point *)
C10_AsStated ==
    [][/\ (DEVICE.Path = <<>> /\ line' # <<>>
           /\ WordOf(line') \in {"lineto", "rlineto", "currentpoint"}) =>
                err' # "ok" /\ DEVICE'.Path = <<>>
       /\ DEVICE'.Path # <<>> => DEVICE'.Path[1].type = "moveto"
      ]_vars

----------------------------------------------------------------------------
(* SpecGeom: paths are built line by line from the constructed state and
   stroked or filled.  A stroke is modelled for paths whose segments all
   have a rational heading; lines are read while the mesh is small. *)

MaxPath == 4
MaxFaces == 3
GeomStarts == {<<10, 10>>}
GeomMoves == {<<12, 0>>, <<0, 5>>, <<-6, 8>>, <<-6, -8>>, <<-12, 5>>}
GeomWidths == {3}

GeomMoveto ==
    \E s \in GeomStarts :
        /\ Len(FACE) <= MaxFaces
        /\ RunLine(MovetoLine(s[1], s[2]))
        /\ UNCHANGED <<program, pc>>

GeomRlineto ==
    \E d \in GeomMoves :
        /\ Len(FACE) <= MaxFaces
        /\ Len(DEVICE.Path) < MaxPath
        /\ RunLine(RlinetoLine(d[1], d[2]))
        /\ UNCHANGED <<program, pc>>

GeomClosepath ==
    /\ Len(FACE) <= MaxFaces
    /\ Len(DEVICE.Path) < MaxPath
    /\ RunLine(ClosepathLine)
    /\ UNCHANGED <<program, pc>>

GeomSetlinewidth ==
    \E w \in GeomWidths :
        /\ Len(FACE) <= MaxFaces
        /\ RunLine(SetlinewidthLine(w))
        /\ UNCHANGED <<program, pc>>

GeomStroke ==
    /\ Len(FACE) <= MaxFaces
    /\ Strokeable(DEVICE.Path)
    /\ RunLine(StrokeLine)
    /\ UNCHANGED <<program, pc>>

GeomFill ==
    /\ Len(FACE) <= MaxFaces
    /\ RunLine(FillLine)
    /\ UNCHANGED <<program, pc>>

NextGeom ==
    \/ GeomMoveto
    \/ GeomRlineto
    \/ GeomClosepath
    \/ GeomSetlinewidth
    \/ GeomStroke
    \/ GeomFill

SpecGeom == Init /\ [][NextGeom]_vars

----------------------------------------------------------------------------
(* Claims about stroke and the vertex pool, under SpecGeom *)

Printable(w) == w * MMNum >= MMDen
Closed(path) == path # <<>> /\ Last(path).type = "closepath"
ExpectedFaces(path) ==
    IF Closed(path) THEN 4 * (Len(path) - 1) ELSE 4 * (Len(path) - 1) + 2

(* the direction of the i-th segment of a path; a segment of length zero
   has both ends of each rail at one point, which line_formula reads as the
   vertical form *)
SegDir(path, i) ==
    IF path[i].x = path[i + 1].x /\ path[i].y = path[i + 1].y
    THEN <<0, 1>>
    ELSE <<path[i + 1].x - path[i].x, path[i + 1].y - path[i].y>>
Parallel(d, e) == d[1] * e[2] - d[2] * e[1] = 0
Vertical(d) == d[1] = 0

(* the pairs <<trailing, leading>> of segments that stroke joins *)
JoinedPairs(path) ==
    {<<i, i + 1>> : i \in 1..(Len(path) - 2)}
    \cup (IF Closed(path) THEN {<<Len(path) - 1, 1>>} ELSE {})
NonParallel(path) ==
    \A pr \in JoinedPairs(path) :
        ~Parallel(SegDir(path, pr[1]), SegDir(path, pr[2]))
(* the pairs for which join raises: parallel rails, and a vertical trailing
   rail met by a leading rail that is not vertical *)
Unjoinable(path, pr) ==
    \/ Parallel(SegDir(path, pr[1]), SegDir(path, pr[2]))
    \/ Vertical(SegDir(path, pr[1])) /\ ~Vertical(SegDir(path, pr[2]))

(* C6 as stated: for any path with n >= 2 points and a printable width,
   stroke adds 4(n-1)+2 faces (open) or 4(n-1) faces (closed) *)
C6_AsStated ==
    [][(line' = StrokeLine /\ Len(DEVICE.Path) >= 2
        /\ Printable(DEVICE.LineWidth)) =>
            /\ err' = "ok"
            /\ Len(FACE') = Len(FACE) + ExpectedFaces(DEVICE.Path)
      ]_vars

(* C6 amended: for any path with n >= 2 points and a printable width, stroke
   completes exactly when no joined pair of segments has parallel rails or
   a vertical trailing rail; when it completes it has added, after the
   faces already recorded, exactly 4(n-1)+2 faces if the path is open and
   4(n-1) if it is closed, and cleared the path; otherwise join raises and
   the path is left in place *)
C6_FaceCount ==
    [][(line' = StrokeLine /\ Len(DEVICE.Path) >= 2
        /\ Printable(DEVICE.LineWidth)) =>
            /\ err' = "ok" <=>
                   \A pr \in JoinedPairs(DEVICE.Path) :
                       ~Unjoinable(DEVICE.Path, pr)
            /\ IF err' = "ok"
               THEN /\ Len(FACE') = Len(FACE) + ExpectedFaces(DEVICE.Path)
                    /\ SubSeq(FACE', 1, Len(FACE)) = FACE
                    /\ DEVICE'.Path = <<>>
               ELSE /\ err' \in {"ZeroDivisionError", "UnboundLocalError",
                                 "KeyError"}
                    /\ DEVICE'.Path = DEVICE.Path
      ]_vars

(* a closed path of three segments stroked onto an empty mesh *)
C6_Witness ==
    /\ line = StrokeLine /\ err = "ok"
    /\ Len(FACE) = 12 /\ Len(VERTEX) = 36

(* the top face of the i-th segment of the stroke that appended to FACE
   after the first offset faces *)
TopFace(F, offset, open, i) ==
    F[offset + (IF open THEN 1 ELSE 0) + 4 * (i - 1) + 1]

(* the top faces a stroke of path recorded in F after the first offset
   faces hold one pool index at both corners of every joined pair *)
SharedCorners(F, offset, path) ==
    \A pr \in JoinedPairs(path) :
        LET trail == TopFace(F, offset, ~Closed(path), pr[1])
            lead == TopFace(F, offset, ~Closed(path), pr[2])
        IN  trail[1] = lead[2] /\ trail[4] = lead[3]

(* C7 as stated: after stroking any path whose adjacent segment directions
   are non-parallel, the top faces recorded in the Face list of every pair
   of adjacent segments, and of the last and first segment of a closed
   path, hold the same pool index at both joined corners:
   top(i-1)[0] = top(i)[1] and top(i-1)[3] = top(i)[2] *)
C7_AsStated ==
    [][(line' = StrokeLine /\ Len(DEVICE.Path) >= 2
        /\ Printable(DEVICE.LineWidth) /\ NonParallel(DEVICE.Path)
        /\ Len(FACE') > Len(FACE)) =>
            SharedCorners(FACE', Len(FACE), DEVICE.Path)
      ]_vars

(* C7 for the strokes that complete: the recorded top faces of every joined
   pair hold the same pool index at both joined corners *)
C7_SharedCorners ==
    [][(line' = StrokeLine /\ err' = "ok") =>
            SharedCorners(FACE', Len(FACE), DEVICE.Path)
      ]_vars

C7_Witness ==
    /\ line = StrokeLine /\ err = "ok" /\ Len(FACE) = 12
    /\ FACE[9][1] = FACE[1][2] /\ FACE[1][1] = FACE[5][2]

(* the contract of one get_vertex call on pool V *)
GetVertexContract(V, point) ==
    LET r == get_vertex(V, point)
    IN  IF \E i \in 1..Len(V) : <<V[i].x, V[i].y, V[i].z>>
                                    = <<point.x, point.y, point.z>>
        THEN /\ r.VERTEX = V
             /\ r.index + 1 \in 1..Len(V)
             /\ <<V[r.index + 1].x, V[r.index + 1].y, V[r.index + 1].z>>
                    = <<point.x, point.y, point.z>>
        ELSE /\ r.VERTEX = Append(V, point)
             /\ \A i \in 1..Len(V) : r.index > i - 1

(* points to call get_vertex with: the pool's own coordinates under another
   tag, and the same points moved to a level nothing is stored at *)
Probes(V) ==
    {[V[i] EXCEPT !.type = "probe"] : i \in 1..Len(V)}
    \cup {[V[i] EXCEPT !.z = RInt(-1)] : i \in 1..Len(V)}
    \cup {Triplet(RZero, RZero, RInt(-1), "probe")}

NoDuplicates(V) ==
    \A i, j \in 1..Len(V) :
        i # j => <<V[i].x, V[i].y, V[i].z>> # <<V[j].x, V[j].y, V[j].z>>

(* C8: the pool never holds two entries with equal (x, y, z); an index keeps
   its coordinates; get_vertex returns the existing index for pooled
   coordinates without growing the pool, and for new coordinates an index
   larger than every index assigned before *)
C8_VertexPool ==
    [][/\ NoDuplicates(VERTEX')
       /\ Len(VERTEX') >= Len(VERTEX)
       /\ \A i \in 1..Len(VERTEX) : VERTEX'[i] = VERTEX[i]
       /\ \A p \in Probes(VERTEX') : GetVertexContract(VERTEX', p)
      ]_vars

(* a triangle filled after a fill of its first point alone: the calls for
   that point found the two entries already pooled *)
C8_Witness ==
    /\ err = "ok" /\ line = FillLine
    /\ Len(FACE) = 8 /\ Len(VERTEX) = 6

----------------------------------------------------------------------------
(* SpecGState: an input file of the form  prelude, gsave, body, grestore.
   The prelude mutates the graphics state; the body is any sequence of at
   most MaxBody lines that mutate it, gsave and grestore included. *)

MaxBody == 3

Preludes ==
    { <<>>,
      <<SetlinewidthLine(3), MovetoLine(10, 10)>>,
      <<SetlinewidthLine(3), MovetoLine(10, 10), RlinetoLine(-6, 8)>>,
      <<SetgrayLine(0), MovetoLine(0, 0), ClosepathLine>> }

BodyLines ==
    { SetlinewidthLine(4), SetgrayLine(0), SetrgbcolorLine(<<1, 1, 1>>),
      MovetoLine(0, 0), RlinetoLine(12, 0), ClosepathLine, StrokeLine,
      FillLine, GsaveLine, GrestoreLine }

Bodies == UNION {[1..n -> BodyLines] : n \in 0..MaxBody}

GStateProgram(prelude, body) ==
    prelude \o <<GsaveLine>> \o body \o <<GrestoreLine>>

InitGState ==
    /\ Constructed
    /\ program \in {GStateProgram(p, b) : p \in Preludes, b \in Bodies}
    /\ pc = 0

SpecGState == InitGState /\ [][NextLine]_vars

(* the interpreter state after the first k lines of an input file *)
RECURSIVE After(_, _)
After(lines, k) ==
    IF k = 0
    THEN Machine(<<>>, <<>>, DEVICE0, <<>>, <<>>, <<WHITE>>, OBJ0, "ok")
    ELSE process(lines[k], After(lines, k - 1))

(* the line of the gsave that the grestore on line j matches, 0 if none:
   scanning back from line i with depth grestores still to be matched *)
RECURSIVE MatchBack(_, _, _)
MatchBack(lines, i, depth) ==
    IF i = 0 THEN 0
    ELSE IF lines[i] = GrestoreLine THEN MatchBack(lines, i - 1, depth + 1)
    ELSE IF lines[i] = GsaveLine
    THEN IF depth = 0 THEN i ELSE MatchBack(lines, i - 1, depth - 1)
    ELSE MatchBack(lines, i - 1, depth)
MatchingGsave(lines, j) == MatchBack(lines, j - 1, 0)

GState(device) == <<device.LineWidth, device.RGBColor, device.Path>>

(* C2: whenever a grestore has run, lineWidth, color and path equal their
   values at the moment of the matching gsave, whatever lines came before
   the gsave and between the two *)
C2_SaveRestore ==
    (err = "ok" /\ pc >= 1 /\ line = GrestoreLine
     /\ MatchingGsave(program, pc) > 0) =>
        GState(DEVICE)
            = GState(After(program, MatchingGsave(program, pc) - 1).DEVICE)

(* the outer grestore after a body that changed the width, stroked the path
   away and ran a nested gsave/grestore pair *)
C2_Witness ==
    /\ err = "ok" /\ pc = Len(program) /\ pc = 8
    /\ program[4] = GsaveLine
    /\ program[5] = StrokeLine
    /\ program[6] = GsaveLine /\ program[7] = GrestoreLine
    /\ Len(FACE) = 6
    /\ Len(DEVICE.Path) = 2

----------------------------------------------------------------------------
(* SpecColor: lines that set the colour or save and restore the graphics
   state, read from the constructed state while the .obj output is short *)

MaxObj == 8
MaxSaves == 2
Colours == {BLACK, WHITE, <<1, 0, 0>>}
Grays == {0, 1}

ColorSetrgbcolor ==
    \E c \in Colours :
        /\ Len(obj) < MaxObj
        /\ RunLine(SetrgbcolorLine(c))
        /\ UNCHANGED <<program, pc>>

ColorSetgray ==
    \E g \in Grays :
        /\ Len(obj) < MaxObj
        /\ RunLine(SetgrayLine(g))
        /\ UNCHANGED <<program, pc>>

ColorGsave ==
    /\ Len(GSTACK) < MaxSaves
    /\ RunLine(GsaveLine)
    /\ UNCHANGED <<program, pc>>

ColorGrestore ==
    /\ RunLine(GrestoreLine)
    /\ UNCHANGED <<program, pc>>

NextColor ==
    \/ ColorSetrgbcolor
    \/ ColorSetgray
    \/ ColorGsave
    \/ ColorGrestore

SpecColor == Init /\ [][NextColor]_vars

(* the material registry holds no RGB triple twice *)
NoDuplicateColours(C) ==
    \A i, j \in 1..Len(C) : i # j => C[i] # C[j]

(* C11: the material registry never holds an RGB triple twice, every colour
   keeps the index it received on first insertion, and the same
   `r g b setrgbcolor` issued twice in a row adds no entry the second time *)
C11_Registry ==
    [][/\ NoDuplicateColours(COLOR')
       /\ Len(COLOR') >= Len(COLOR)
       /\ \A i \in 1..Len(COLOR) : COLOR'[i] = COLOR[i]
       /\ (err' = "ok" /\ line' = line /\ line' # <<>>
           /\ WordOf(line') = "setrgbcolor") =>
               COLOR' = COLOR /\ obj' = obj
      ]_vars

(* a colour set again after another colour was registered in between: the
   registry keeps its three entries *)
C11_Witness ==
    /\ err = "ok" /\ line = SetrgbcolorLine(<<1, 0, 0>>)
    /\ COLOR = <<WHITE, <<1, 0, 0>>, BLACK>>
    /\ DEVICE.RGBColor = <<1, 0, 0>>
    /\ Len(obj) = 8

(* the material group selected last in the .obj output *)
RECURSIVE LastGroup(_)
LastGroup(out) ==
    IF out = <<>> THEN -1
    ELSE IF Last(out)[1] = "usemtl" THEN Last(out)[2]
    ELSE LastGroup(Front(out))

(* C12 as stated: after `0 setgray` the current colour is the fallback
   colour, not black, and the material group selected last in the mesh
   output is the fallback colour's *)
C12_AsStated ==
    [][(err' = "ok" /\ line' = SetgrayLine(0)) =>
            /\ DEVICE'.RGBColor = WHITE
            /\ COLOR'[LastGroup(obj') + 1] = WHITE
      ]_vars

(* C13: fill on a path whose final point is not tagged closepath aborts
   with an error, adds nothing to the Vertex Pool or the Face list and
   leaves the path unchanged *)
C13_FillNeedsClosedPath ==
    [][(line' = FillLine /\ DEVICE.Path # <<>>
        /\ Last(DEVICE.Path).type # "closepath") =>
            /\ err' = "ValueError"
            /\ VERTEX' = VERTEX /\ FACE' = FACE
            /\ DEVICE' = DEVICE
      ]_vars

(* a fill refused on an open two-point path, with a printable width and
   the faces of an earlier fill in the Face list *)
C13_Witness ==
    /\ line = FillLine /\ err = "ValueError"
    /\ DEVICE.LineWidth = 3
    /\ Len(DEVICE.Path) = 2 /\ Last(DEVICE.Path).type = "lineto"
    /\ Len(FACE) = 3

----------------------------------------------------------------------------
(* Claims about the path, under SpecGState *)

PathWords == {"moveto", "rmoveto", "lineto", "rlineto", "closepath"}

(* the number of lines of the input file that ran to their end *)
Succeeded == IF err = "ok" THEN pc ELSE pc - 1

(* C14 as stated: once a path-construction operator has executed
   successfully the current path is non-empty, whatever was executed
   afterwards *)
C14_AsStated ==
    (\E k \in 1..Succeeded : WordOf(program[k]) \in PathWords) =>
        DEVICE.Path # <<>>

(* C14 amended: a path-construction operator that succeeds leaves the path
   non-empty, and a non-empty path stays non-empty until a stroke or fill
   completes, which clears it, or a grestore brings back a saved empty path *)
C14_PathEmptied ==
    [][/\ (err' = "ok" /\ WordOf(line') \in PathWords) =>
                DEVICE'.Path # <<>>
       /\ (DEVICE.Path # <<>> /\ DEVICE'.Path = <<>>) =>
                \/ err' = "ok" /\ line' \in {StrokeLine, FillLine}
                \/ /\ err' = "ok" /\ line' = GrestoreLine
                   /\ Last(GSTACK).Path = <<>>
       /\ (err' = "ok" /\ line' \in {StrokeLine, FillLine}) =>
                DEVICE'.Path = <<>>
      ]_vars

(* the path built by moveto and rlineto is gone after the stroke *)
C14_Witness ==
    /\ err = "ok" /\ line = StrokeLine /\ pc = 5
    /\ WordOf(program[2]) = "moveto" /\ WordOf(program[3]) = "rlineto"
    /\ DEVICE.Path = <<>>
    /\ Len(FACE) = 6

----------------------------------------------------------------------------
(* SpecMaterial: an input file that draws under colour A, changes to colour
   B, draws again and calls showpage *)

MaterialColours == {BLACK, WHITE, <<1, 0, 0>>, <<0, 0, 1>>}

(* a drawing on one line *)
StrokeDrawing ==
    <<N(10), N(10), W("moveto"), N(12), N(0), W("rlineto"), W("stroke")>>
FillDrawing ==
    <<N(0), N(0), W("moveto"), N(-6), N(8), W("rlineto"), W("closepath"),
      W("fill")>>
Drawings == {StrokeDrawing, FillDrawing}

MaterialProgram(a, d1, b, d2) ==
    <<SetlinewidthLine(3), SetrgbcolorLine(a), d1, SetrgbcolorLine(b), d2,
      ShowpageLine>>

InitMaterial ==
    /\ Constructed
    /\ program \in {MaterialProgram(a, d1, b, d2) :
                        a \in MaterialColours, b \in MaterialColours,
                        d1 \in Drawings, d2 \in Drawings}
    /\ pc = 0

SpecMaterial == InitMaterial /\ [][NextLine]_vars

(* the position in the .obj output of the record of the i-th face *)
FacePosition(out, i) ==
    CHOOSE p \in 1..Len(out) :
        /\ out[p][1] = "f"
        /\ Cardinality({q \in 1..p : out[q][1] = "f"}) = i

(* the colour of the material group that the record at position p of the
   .obj output is written under *)
ColourAt(out, p) == COLOR[LastGroup(SubSeq(out, 1, p)) + 1]

(* the colour set by a setrgbcolor line *)
ColourOf(l) == <<l[1].v, l[2].v, l[3].v>>

(* C15 as stated: after showpage every face record of the first drawing is
   written under the material group of colour A, current when the face was
   created, and every face record of the second under that of colour B *)
C15_AsStated ==
    (pc = 6 /\ err = "ok") =>
        \A i \in 1..Len(FACE) :
            ColourAt(obj, FacePosition(obj, i)) =
                IF i <= Len(After(program, 3).FACE)
                THEN ColourOf(program[2])
                ELSE ColourOf(program[4])

(* ------------------------------------------------------------------ *)
(* Winding of the stroke faces                                         *)
(* ------------------------------------------------------------------ *)

(* twice the area vector of a face with four corners (Newell's sums): by
   the right-hand rule it points at the side from which the corners run
   counterclockwise *)
NewellTerm(p, q) ==
    << RMul(RSub(p.y, q.y), RAdd(p.z, q.z)),
       RMul(RSub(p.z, q.z), RAdd(p.x, q.x)),
       RMul(RSub(p.x, q.x), RAdd(p.y, q.y)) >>
VecAdd(a, b) == <<RAdd(a[1], b[1]), RAdd(a[2], b[2]), RAdd(a[3], b[3])>>
FaceNormal(V, face) ==
    VecAdd(VecAdd(NewellTerm(V[face[1]], V[face[2]]),
                  NewellTerm(V[face[2]], V[face[3]])),
           VecAdd(NewellTerm(V[face[3]], V[face[4]]),
                  NewellTerm(V[face[4]], V[face[1]])))
Dot(n, d) ==
    RAdd(RAdd(RMul(n[1], RInt(d[1])), RMul(n[2], RInt(d[2]))),
         RMul(n[3], RInt(d[3])))
(* Rat keeps denominators positive: the sign is the numerator's *)
Counterclockwise(V, face, outward) ==
    Dot(FaceNormal(V, face), outward)[1] > 0

(* the direction a segment heads in; atan2 gives heading 0 to a segment of
   length zero *)
Heading(path, i) ==
    IF path[i].x = path[i + 1].x /\ path[i].y = path[i + 1].y
    THEN <<1, 0>>
    ELSE <<path[i + 1].x - path[i].x, path[i + 1].y - path[i].y>>

(* outward directions of the faces of a segment heading in d: port is to the
   left of the heading, starboard to the right *)
Up == <<0, 0, 1>>
Down == <<0, 0, -1>>
Port(d) == <<-d[2], d[1], 0>>
Starboard(d) == <<d[2], -d[1], 0>>
Ahead(d) == <<d[1], d[2], 0>>
Behind(d) == <<-d[1], -d[2], 0>>

(* the faces a stroke of path recorded in F after the first offset faces
   all wind counterclockwise seen from outside *)
WindsOutward(V, F, offset, path) ==
    LET open == ~Closed(path)
        base(i) == offset + (IF open THEN 1 ELSE 0) + 4 * (i - 1)
    IN  /\ \A i \in 1..(Len(path) - 1) :
               LET d == Heading(path, i)
               IN  /\ Counterclockwise(V, F[base(i) + 1], Up)
                   /\ Counterclockwise(V, F[base(i) + 2], Port(d))
                   /\ Counterclockwise(V, F[base(i) + 3], Down)
                   /\ Counterclockwise(V, F[base(i) + 4], Starboard(d))
        /\ open =>
               /\ Counterclockwise(V, F[offset + 1],
                                   Behind(Heading(path, 1)))
               /\ Counterclockwise(V, F[Len(F)],
                                   Ahead(Heading(path, Len(path) - 1)))

(* SpecMiter: one stroke of two segments, open or closed by closepath, at
   a width below and a width above what the corners leave room for *)
MiterWidths == {3, 8}
MiterEndings == {<<>>, <<ClosepathLine>>}
MiterProgram(w, a, b, ending) ==
    <<SetlinewidthLine(w), MovetoLine(10, 10), RlinetoLine(a[1], a[2]),
      RlinetoLine(b[1], b[2])>> \o ending \o <<StrokeLine>>

InitMiter ==
    /\ Constructed
    /\ program \in {MiterProgram(w, a, b, ending) :
                        w \in MiterWidths, a \in GeomMoves, b \in GeomMoves,
                        ending \in MiterEndings}
    /\ pc = 0

SpecMiter == InitMiter /\ [][NextLine]_vars

(* C16 as stated: every face a completed stroke records - top, left,
   bottom, right of every segment, and the start and end caps of an open
   path - lists its corners counterclockwise when viewed from its outward
   normal (top from +z, bottom from -z, left from port, right from
   starboard, start from behind, end from ahead), for every heading, for
   unjoined segments and after mitering *)
C16_AsStated ==
    [][(line' = StrokeLine /\ err' = "ok" /\ Len(DEVICE.Path) >= 2) =>
            WindsOutward(VERTEX', FACE', Len(FACE), DEVICE.Path)
      ]_vars

(* ------------------------------------------------------------------ *)
(* Intersection of a vertical and a slope-intercept rail               *)
(* ------------------------------------------------------------------ *)

(* the port rails of the segments of a path as get_faces lays them out,
   before any join *)
PortRails(path, linewidth, V) ==
    LET built == BuildSegments(path, 1, linewidth, V)
    IN  [i \in 1..Len(built.segments) |->
            Rail(built.VERTEX, built.segments[i].top, 2, 1)]

(* the point where the vertical line x = c meets y = m x + c' *)
MeetsVertical(r, vertical, sloped) ==
    /\ r.err = "ok"
    /\ r.point.x = vertical.x
    /\ r.point.y = RAdd(RMul(sloped.m, vertical.x), sloped.c)

(* what is claimed of intersection for the rails a and b, in both orders of
   the arguments *)
IntersectsEitherWay(a, b) ==
    /\ (a.kind = "x" /\ b.kind = "m") =>
           /\ MeetsVertical(intersection(a, b), a, b)
           /\ MeetsVertical(intersection(b, a), a, b)
    /\ (a.kind = "m" /\ b.kind = "x") =>
           /\ MeetsVertical(intersection(a, b), b, a)
           /\ MeetsVertical(intersection(b, a), b, a)
    /\ (a.kind = "m" /\ b.kind = "m" /\ a.m # b.m) =>
           /\ intersection(a, b).err = "ok"
           /\ intersection(a, b) = intersection(b, a)

(* C17 as stated: when one rail is the vertical line x = c and the other is
   y = m x + c', intersection returns x = c, y = m c + c' whichever of its
   two arguments is the vertical one, and it is symmetric for two
   slope-intercept rails; so join, and with it stroke, completes for a
   vertical leading segment and for a vertical trailing one alike *)
C17_AsStated ==
    [][(line' = StrokeLine /\ Len(DEVICE.Path) >= 2
        /\ Printable(DEVICE.LineWidth) /\ NonParallel(DEVICE.Path)) =>
            LET rails == PortRails(DEVICE.Path, DEVICE.LineWidth, VERTEX)
            IN  /\ \A pr \in JoinedPairs(DEVICE.Path) :
                       IntersectsEitherWay(rails[pr[2]], rails[pr[1]])
                /\ err' = "ok"
      ]_vars

(* ------------------------------------------------------------------ *)
(* The faces of a filled path                                          *)
(* ------------------------------------------------------------------ *)

(* the points of a closed path without its closepath entry are distinct *)
DistinctPoints(path) ==
    \A i, j \in 1..(Len(path) - 1) :
        i # j => <<path[i].x, path[i].y>> # <<path[j].x, path[j].y>>

AtLevel(V, face, z) == \A s \in 1..Len(face) : V[face[s]].z = RInt(z)
DistinctIndices(face) ==
    Cardinality({face[s] : s \in 1..Len(face)}) = Len(face)

(* C18 as stated: fill on a closed path with k distinct vertices records
   exactly k + 2 faces: one top cap over the k points at z = linewidth, one
   bottom cap at z = 0, and one quadrilateral side per edge, the closing
   edge included, each with four distinct pool indices *)
C18_AsStated ==
    [][(line' = FillLine /\ err' = "ok" /\ Len(DEVICE.Path) >= 4
        /\ DistinctPoints(DEVICE.Path)) =>
            LET k == Len(DEVICE.Path) - 1
                n == Len(FACE)
            IN  /\ Len(FACE') = n + k + 2
                /\ SubSeq(FACE', 1, n) = FACE
                /\ Len(FACE'[n + 1]) = k
                /\ AtLevel(VERTEX', FACE'[n + 1], DEVICE.LineWidth)
                /\ Len(FACE'[n + k + 2]) = k
                /\ AtLevel(VERTEX', FACE'[n + k + 2], 0)
                /\ \A e \in 1..k :
                       /\ Len(FACE'[n + 1 + e]) = 4
                       /\ DistinctIndices(FACE'[n + 1 + e])
      ]_vars

(* ------------------------------------------------------------------ *)
(* What join does to the vertex pool                                   *)
(* ------------------------------------------------------------------ *)

(* the segments and the pool of a path as get_faces leaves them, before
   the first join *)
Unjoined(path, linewidth, V) == BuildSegments(path, 1, linewidth, V)

(* C19 as stated: a miter join overwrites the stored point in place at its
   existing pool index: the pool is as long after the joins as before, the
   recorded faces hold the indices get_faces gave them, and the pool entry
   at the joined corner is now the intersection point *)
C19_AsStated ==
    [][(line' = StrokeLine /\ err' = "ok" /\ Len(DEVICE.Path) >= 3) =>
            LET u == Unjoined(DEVICE.Path, DEVICE.LineWidth, VERTEX)
                open == ~Closed(DEVICE.Path)
            IN  /\ Len(VERTEX') = Len(u.VERTEX)
                /\ \A pr \in JoinedPairs(DEVICE.Path) :
                       LET top == u.segments[pr[1]].top
                           port == PortPoint(u.segments[pr[1]],
                                             u.segments[pr[2]], u.VERTEX)
                       IN  /\ TopFace(FACE', Len(FACE), open, pr[1]) = top
                           /\ TripletEq(VERTEX'[top[1]], port.point)
      ]_vars

(* C19 amended: join does not touch a stored point.  It looks the
   intersection point up with get_vertex, which appends it when the pool
   does not hold it yet, and writes the index it gets into the face slots
   of both segments: after a completed stroke every pool entry of before
   the joins is unchanged at its index, the pool has gained at most four
   entries per join, and the joined corners of the recorded top faces hold
   an index other than the one get_faces gave them, whose pool entry is
   the intersection of the port, resp. starboard, rails *)
C19_JoinAppends ==
    [][(line' = StrokeLine /\ err' = "ok" /\ Len(DEVICE.Path) >= 3) =>
            LET u == Unjoined(DEVICE.Path, DEVICE.LineWidth, VERTEX)
                n == Len(u.VERTEX)
                open == ~Closed(DEVICE.Path)
            IN  /\ SubSeq(VERTEX', 1, n) = u.VERTEX
                /\ Len(VERTEX')
                       <= n + 4 * Cardinality(JoinedPairs(DEVICE.Path))
                /\ \A pr \in JoinedPairs(DEVICE.Path) :
                       LET trail == u.segments[pr[1]]
                           lead == u.segments[pr[2]]
                           top == TopFace(FACE', Len(FACE), open, pr[1])
                       IN  /\ top[1] # trail.top[1]
                           /\ top[4] # trail.top[4]
                           /\ TripletEq(VERTEX'[top[1]],
                                  PortPoint(trail, lead, u.VERTEX).point)
                           /\ TripletEq(VERTEX'[top[4]],
                                  StarboardPoint(trail, lead,
                                                 u.VERTEX).point)
      ]_vars

(* an open path of two segments stroked onto an empty mesh: sixteen corners
   from get_faces, four more from the one join *)
C19_Witness ==
    /\ line = StrokeLine /\ err = "ok" /\ pc = 5
    /\ Len(FACE) = 10 /\ Len(VERTEX) = 20
    /\ FACE[2][1] = 17 /\ FACE[6][2] = 17

(* ------------------------------------------------------------------ *)
(* The face slots join rewrites                                        *)
(* ------------------------------------------------------------------ *)

FaceNames == {"top", "bottom", "left", "right", "start", "end"}

(* every slot of segment after that differs from before holds a corner at
   the z level of the corner it held, and held one of the corners at the
   joined end: on the port rail if it now holds the port point or its
   hull twin, on the starboard rail otherwise *)
SlotsKept(before, after, Vbefore, Vafter, portCorners, starboardCorners,
          port) ==
    \A f \in FaceNames : \A s \in 1..4 :
        after[f][s] # before[f][s] =>
            /\ Vafter[after[f][s]].z = Vbefore[before[f][s]].z
            /\ before[f][s] \in
                   (IF /\ Vafter[after[f][s]].x = port.x
                       /\ Vafter[after[f][s]].y = port.y
                    THEN portCorners ELSE starboardCorners)

JoinKeepsSlots(trail, lead, V) ==
    LET j == JoinPair(trail, lead, V)
        port == PortPoint(trail, lead, V).point
    IN  j.err = "ok" =>
            /\ SlotsKept(trail, j.trail, V, j.VERTEX,
                         {trail.top[1], trail.bottom[4]},
                         {trail.top[4], trail.bottom[1]}, port)
            /\ SlotsKept(lead, j.lead, V, j.VERTEX,
                         {lead.top[2], lead.bottom[3]},
                         {lead.top[3], lead.bottom[2]}, port)

(* C20 as stated: whenever join rewrites a face slot, in the top, bottom,
   left, right, start or end face of either segment, the slot keeps its z
   level (a deck slot gets the deck point, a hull slot the hull point) and
   is the slot that held the coincident corner on that rail *)
C20_AsStated ==
    [][(line' = StrokeLine /\ Len(DEVICE.Path) >= 3
        /\ Printable(DEVICE.LineWidth)) =>
            LET u == Unjoined(DEVICE.Path, DEVICE.LineWidth, VERTEX)
            IN  JoinKeepsSlots(u.segments[1], u.segments[2], u.VERTEX)
      ]_vars

(* ------------------------------------------------------------------ *)
(* Face indices and the vertex records of the mesh output              *)
(* ------------------------------------------------------------------ *)

(* SpecPage: a path of two segments, open or closed, stroked or filled,
   a second drawing on top of it, then showpage *)
PageWidths == {3, 8}
PageEndings == {<<>>, <<ClosepathLine>>}
PagePaints == {StrokeLine, FillLine}
PageProgram(w, a, b, ending, paint, drawing) ==
    <<SetlinewidthLine(w), MovetoLine(10, 10), RlinetoLine(a[1], a[2]),
      RlinetoLine(b[1], b[2])>> \o ending
        \o <<paint, drawing, ShowpageLine>>

InitPage ==
    /\ Constructed
    /\ program \in {PageProgram(w, a, b, ending, paint, drawing) :
                        w \in PageWidths, a \in GeomMoves, b \in GeomMoves,
                        ending \in PageEndings, paint \in PagePaints,
                        drawing \in Drawings}
    /\ pc = 0

SpecPage == InitPage /\ [][NextLine]_vars

(* the pool indices for which the output holds a vertex record *)
VertexRecords(out) == {out[p][2] : p \in {q \in 1..Len(out) : out[q][1] = "v"}}

IndicesInPool(F, V) ==
    \A f \in 1..Len(F) : \A s \in 1..Len(F[f]) : F[f][s] \in 1..Len(V)

(* C21: after any sequence of stroke and fill operations, joins and the
   closing join of a closed path included, every index stored in every
   entry of the face list is between 1 and the current size of the vertex
   pool, and every face record showpage has written refers only to
   vertices whose record it has written too *)
C21_IndicesInPool ==
    /\ IndicesInPool(FACE, VERTEX)
    /\ \A p \in 1..Len(obj) :
           obj[p][1] = "f" =>
               \A s \in 1..Len(obj[p][2]) :
                   obj[p][2][s] \in VertexRecords(obj)

(* a closed path stroked with all three joins, a filled triangle on top,
   and the page shown: a face record names the last vertex of the pool *)
C21_Witness ==
    /\ pc = Len(program) /\ line = ShowpageLine /\ err = "ok"
    /\ program[5] = ClosepathLine /\ program[6] = StrokeLine
    /\ program[7] = FillDrawing
    /\ Len(FACE) = 16 /\ Len(VERTEX) > 36
    /\ \E f \in 1..Len(FACE) : \E s \in 1..Len(FACE[f]) :
           FACE[f][s] = Len(VERTEX)
    /\ \E p \in 1..Len(obj) : obj[p] = <<"f", FACE[Len(FACE)]>>

====
